---- MODULE Spec2Model ----
(***************************************************************************)
(* Phone -> PC mirroring pipeline of Project/showscreen.py:                *)
(* ScreenCaptureThread (producer thread, run) feeding a bounded            *)
(* queue.Queue, and display_optimized_window (consumer, main thread)       *)
(* draining it through get_latest_frame.                                   *)
(*                                                                         *)
(* Every method of queue.Queue is atomic (it holds the queue's mutex);     *)
(* the statements of run and of display_optimized_window interleave        *)
(* freely between two such calls.  One action below is one such atomic     *)
(* step.  Frames are identified by the order in which they were captured   *)
(* (1, 2, 3, ...); None is "no frame".                                     *)
(*                                                                         *)
(* PC -> phone relay of Project/showPC.py: the Flask handlers screen       *)
(* (GET /screen), handle_click (POST /click), get_ip (GET /get_ip) and     *)
(* the generator behind GET /screen_video.  The relay is a program of its  *)
(* own (main.py runs one or the other): it has its own specifications,     *)
(* ScreenSpec, ClickSpec, IpSpec and VideoSpec, in which the mirroring     *)
(* pipeline stands still, as the relay does in Spec.                       *)
(*                                                                         *)
(* TimedSpec runs the display loop and the capture thread against a        *)
(* discrete clock, for the pacing and the fps counter.                     *)
(***************************************************************************)
EXTENDS Integers, Sequences, FiniteSets, TLC

\* ---- bounds of the model
MaxN == 3           \* max_queue_size ranges over 1..MaxN
MaxFrames == 4      \* successful captures in one run
MaxMisses == 2      \* iterations without a push that are counted
QMargin == 400      \* the q parameter ranges over -QMargin..100+QMargin
Den == 6            \* click coordinates are the fractions n/Den, n in -1..Den+1
FineDen == 4000     \* and, just outside [0,1], the fractions -1/FineDen and 1 + 1/FineDen
MaxParts == 4       \* parts of the /screen_video stream that are counted
MaxVFails == 3      \* failed iterations of the /screen_video generator that are counted
MaxSeconds == 6     \* seconds of the timed display loop that are followed
MaxFlips == 2       \* times the frame source goes away or comes back in a timed run

\* ---- program constants
None == 0                   \* Python's None: no frame
DefaultMaxQueueSize == 2    \* __init__(..., max_queue_size=2)
Raised == -1                \* an exception leaves the call instead of a value
TicksPerMs == 3             \* the clock counts thirds of a millisecond (1.0 / 15 s is 200 of them)
TargetFps == 15             \* display_optimized_window(..., target_fps=15)
MinSleepMs == 1             \* max(0.001, ...)
FpsUpdateMs == 1000         \* if elapsed >= 1.0
WaitKeyMs == 1              \* cv2.waitKey(1)
ShortSleepMs == 10          \* time.sleep(0.01) in run
LongSleepMs == 100          \* time.sleep(0.1) in run's except branch

VARIABLES
    max_queue_size, \* constructor argument of ScreenCaptureThread
    queue,          \* self.frame_queue: the queued frames, oldest first
    running,        \* self.running
    ppc,            \* position of the producer thread in run
    frame,          \* run's local `frame`
    captured,       \* number of frames get_screenshot_with_size has produced
    dpc,            \* position of the main thread in display_optimized_window
    img,            \* display_optimized_window's local `img`
    window,         \* the "Phone Screen" window exists
    \* history variables (not program state): what has happened so far
    pushed,         \* frames inserted by frame_queue.put, in order
    returned,       \* frames returned by get_latest_frame, in order
    evicted,        \* frames removed by run's get_nowait
    sincePop,       \* completed puts since the last get_latest_frame call
    pushQ0,         \* queue content at the full() test of the push in progress
    midPops,        \* get_latest_frame calls since that full() test (0, 1, 2 = many)
    midRet,         \* what the first of them returned
    misses,         \* iterations of run that ended without a push (up to MaxMisses)
    afterStop,      \* frames pushed since stop() cleared the flag
    lastSleep,      \* the sleep run has made since its last capture attempt
    lastCap,        \* what the bridge did in the capture attempt of this iteration
    cleanup,        \* the calls display_optimized_window's finally block has made
    exitBy,         \* how the display loop was left: "quit" key or "exception"
    \* GET /screen (showPC.py, screen)
    qarg,           \* the request's q parameter as sent
    spc,            \* position of the handler in screen
    quality,        \* screen's local `quality`
    encQuality,     \* the quality screenshot.save was called with (None: not called)
    sfail,          \* history: the step of the try body that raised
    sresp,          \* the HTTP response
    \* POST /click (showPC.py, handle_click), two concurrent requests
    dsize,          \* what pyautogui.size() answers: <<width, height>>
    pointer,        \* the position of the operating system's pointer
    cbody,          \* per request: the body as sent
    cpc,            \* per request: position of its handler in handle_click
    ctarget,        \* per request: its locals <<click_x, click_y>>
    cresp,          \* per request: the HTTP response
    clicks,         \* history: the clicks performed, [by |-> request, at |-> position]
    \* GET /screen_video (showPC.py, generate_screenshot), one stream
    gpc,            \* position of the generator
    vconnected,     \* whether the client is still connected
    vparts,         \* history: parts yielded (counted up to MaxParts)
    vfails,         \* history: iterations that raised (counted up to MaxVFails)
    vsleep,         \* history: the last time.sleep of the generator
    \* display_optimized_window and ScreenCaptureThread.run against a clock
    now,            \* time.time(), in ticks since start_time
    tsource,        \* "instant": every capture succeeds at once; "any": it may fail
    tshow,          \* the time imshow takes in this run, in ms
    twait,          \* the time cv2.waitKey(1) takes in this run, in ms
    talive,         \* whether the frame source answers at present
    tflips,         \* history: changes of talive so far
    tppc,           \* position of the capture thread: "run", "exited"
    pwake,          \* when the capture thread's current sleep ends
    tqlen,          \* number of frames in frame_queue
    tdpc,           \* position of the display loop
    dwake,          \* when the display loop's current call returns
    frame_start,    \* display_optimized_window's local frame_start
    frame_count,    \* its local frame_count
    last_fps_update,\* its local last_fps_update
    fps,            \* its local fps, as [frames, elapsed], NoFps before the first update
    rendered,       \* history: frames shown so far
    marks,          \* history: rendered at each whole second, from second 0
    nextMark,       \* when the next whole second is due
    \* GET /get_ip (showPC.py, get_ip), two concurrent requests
    ipc,            \* per request: position of its handler in get_ip
    ip,             \* per request: its local ip
    ipresp          \* per request: the HTTP response

mirrorVars == <<max_queue_size, queue, running, ppc, frame, captured, dpc, img, window,
                pushed, returned, evicted, sincePop, pushQ0, midPops, midRet, misses,
                afterStop, lastSleep, lastCap, cleanup, exitBy>>

screenVars == <<qarg, spc, quality, encQuality, sfail, sresp>>

clickVars == <<dsize, pointer, cbody, cpc, ctarget, cresp, clicks>>

videoVars == <<gpc, vconnected, vparts, vfails, vsleep>>

ipVars == <<ipc, ip, ipresp>>

relayVars == <<screenVars, clickVars, videoVars, ipVars>>

timedVars == <<now, tsource, tshow, twait, talive, tflips, tppc, pwake, tqlen, tdpc, dwake, frame_start,
               frame_count, last_fps_update, fps, rendered, marks, nextMark>>

\* What the (untimed) mirroring pipeline leaves alone.
mirrorRest == <<relayVars, timedVars>>

\* What the handlers of one route leave alone.
screenRest == <<mirrorVars, clickVars, videoVars, ipVars, timedVars>>
clickRest == <<mirrorVars, screenVars, videoVars, ipVars, timedVars>>
videoRest == <<mirrorVars, screenVars, clickVars, ipVars, timedVars>>
ipRest == <<mirrorVars, screenVars, clickVars, videoVars, timedVars>>
timedRest == <<mirrorVars, relayVars>>

vars == <<mirrorVars, relayVars, timedVars>>

auxVars == <<lastSleep, lastCap, cleanup, exitBy>>

histVars == <<pushed, returned, evicted, sincePop, pushQ0, midPops, midRet, misses>>

\* ------------------------------------------------------------------------
\* queue.Queue (the standard library class behind self.frame_queue)
\* ------------------------------------------------------------------------

\* A faulty variant: the constructor argument is not handed to the queue (maxsize 0:
\* a queue.Queue of unbounded size).
QueueMaxsizeUnbounded(n) == 0

\* Queue(maxsize=max_queue_size): the maxsize the queue is built with.
QueueMaxsize(n) == n

maxsize == QueueMaxsize(max_queue_size)

\* Queue.full(): 0 < maxsize <= qsize (maxsize <= 0 is an unbounded queue).
full(q) == 0 < maxsize /\ maxsize <= Len(q)

\* A faulty variant: a LifoQueue, whose get takes the item put last.
QueueGetLifo(q, block) ==
    IF Len(q) > 0
    THEN [kind |-> "item", item |-> q[Len(q)], queue |-> SubSeq(q, 1, Len(q) - 1)]
    ELSE IF block THEN [kind |-> "wait", item |-> None, queue |-> q]
    ELSE [kind |-> "Empty", item |-> None, queue |-> q]

\* Queue.get(block): the oldest item; on an empty queue raises Empty when
\* block is false and waits when block is true.
QueueGet(q, block) ==
    IF Len(q) > 0 THEN [kind |-> "item", item |-> Head(q), queue |-> Tail(q)]
    ELSE IF block THEN [kind |-> "wait", item |-> None, queue |-> q]
    ELSE [kind |-> "Empty", item |-> None, queue |-> q]

\* Queue.put(item, block): appends at the tail; on a full queue raises Full
\* when block is false and waits when block is true.
QueuePut(q, item, block) ==
    IF ~full(q) THEN [kind |-> "ok", queue |-> Append(q, item)]
    ELSE IF block THEN [kind |-> "wait", queue |-> q]
    ELSE [kind |-> "Full", queue |-> q]

\* ------------------------------------------------------------------------
\* ScreenCaptureThread
\* ------------------------------------------------------------------------

\* A faulty variant: a loop test that no longer depends on the flag being set
\* (`while not self.running`).
WhileTestNegated(r) == ~r

\* `while self.running:` the loop test of run.
WhileTest(r) == r

\* A faulty variant: get_screenshot_with_size without its try/except: a timeout
\* or a missing bridge executable raises to the caller.
get_screenshot_unguarded(size, shot, decode, f) ==
    IF size \in {"timeout", "notfound"} THEN Raised
    ELSE IF size = "nosize" THEN None
    ELSE IF shot \in {"timeout", "notfound"} THEN Raised
    ELSE IF shot = "nonzero" THEN None
    ELSE IF decode = "undecodable" THEN None
    ELSE f

\* get_screenshot_with_size: the size query, the screenshot command and the
\* decoding each succeed or fail; every failure, an exception included, gives
\* None.  With all three succeeding the result is the frame `f`.
get_screenshot_with_size(size, shot, decode, f) ==
    IF size \in {"timeout", "notfound"} THEN None            \* except: return None
    ELSE IF size = "nosize" THEN None                        \* no "Physical size"
    ELSE IF shot \in {"timeout", "notfound"} THEN None       \* except: return None
    ELSE IF shot = "nonzero" THEN None                       \* returncode != 0
    ELSE IF decode = "undecodable" THEN None                 \* imdecode gave None
    ELSE f

SizeOutcomes == {"ok", "nosize", "timeout", "notfound"}
ShotOutcomes == {"ok", "nonzero", "timeout", "notfound"}
DecodeOutcomes == {"ok", "undecodable"}

\* What one capture attempt did: the screenshot command is run only when the
\* size query gave a size, the decoding only when the command exited with 0.
CaptureTrace(size, shot, decode) ==
    [size |-> size,
     shot |-> IF size = "ok" THEN shot ELSE "notrun",
     decode |-> IF size = "ok" /\ shot = "ok" THEN decode ELSE "notrun"]

NoCapture == [size |-> "notrun", shot |-> "notrun", decode |-> "notrun"]

\* A faulty variant: a None capture goes straight back to the loop test
\* (`continue`), without the sleep.
CaptureNextNoSleep(r) ==
    IF r = Raised THEN "except" ELSE IF r # None THEN "full" ELSE "while"

\* Where run goes after the capture call: `if frame is not None:` the push,
\* otherwise the sleep at the end of the try body; `except` if the call raised.
CaptureNext(r) ==
    IF r = Raised THEN "except" ELSE IF r # None THEN "full" ELSE "sleep"

\* A faulty variant: the eviction is skipped (the full() test always answers False).
NeverEvict(q) == FALSE

\* `if self.frame_queue.full():` whether run goes on to evict.
NeedsEvict(q) == full(q)

\* A faulty variant: the eviction drops the newest queued frame instead of the oldest.
EvictNewest(q) ==
    IF Len(q) > 0
    THEN [kind |-> "item", item |-> q[Len(q)], queue |-> SubSeq(q, 1, Len(q) - 1)]
    ELSE [kind |-> "Empty", item |-> None, queue |-> q]

\* `try: self.frame_queue.get_nowait() except Empty: pass`
Evict(q) == QueueGet(q, FALSE)

\* A faulty variant: the new frame is inserted at the head of the queue.
PushAtHead(q, f) ==
    IF ~full(q) THEN [kind |-> "ok", queue |-> <<f>> \o q]
    ELSE [kind |-> "wait", queue |-> q]

\* `self.frame_queue.put(frame)`: a blocking put.
Push(q, f) == QueuePut(q, f, TRUE)

\* A faulty variant: get_latest_frame looks at the oldest frame without removing it.
PeekLatestFrame(q) ==
    IF Len(q) > 0 THEN [kind |-> "return", ret |-> Head(q), queue |-> q]
    ELSE [kind |-> "return", ret |-> None, queue |-> q]

\* A faulty variant: get_latest_frame waits for a frame (frame_queue.get()).
BlockingLatestFrame(q) ==
    LET r == QueueGet(q, TRUE)
    IN  IF r.kind = "wait" THEN [kind |-> "wait", ret |-> None, queue |-> q]
        ELSE [kind |-> "return", ret |-> r.item, queue |-> r.queue]

\* get_latest_frame: get_nowait(), None on Empty.
get_latest_frame(q) ==
    LET r == QueueGet(q, FALSE)
    IN  IF r.kind = "Empty" THEN [kind |-> "return", ret |-> None, queue |-> q]
        ELSE [kind |-> "return", ret |-> r.item, queue |-> r.queue]

\* A faulty variant: the cleanup follows the loop without a `finally`, so an
\* exception leaves display_optimized_window at once.
ExceptionPropagates == "returned"

\* try: ... finally: where an exception raised in the loop body goes.
ExceptionExit == "stop"

\* A faulty variant: join() without a timeout returns only once the thread
\* has exited.
JoinWithoutTimeout(p) == p = "exited"

\* capture_thread.join(timeout=1) returns when the thread (at position p) has
\* exited or when the timeout has elapsed: it can always return.
JoinReturns(p) == p = "exited" \/ TRUE

\* A faulty variant: the loop test is skipped after the sleep (`while True`).
AfterSleepSkipsTest == "capture"

\* Where run goes after time.sleep(0.01): back to `while self.running`.
AfterSleep == "while"

\* A faulty variant: an exception in the loop body ends the thread.
RunExceptEnds == "exited"

\* Where run goes after `except Exception as e: time.sleep(0.1)`: back to the
\* loop test.
RunExcept == "while"

\* A faulty variant: stop() leaves the flag as it is.
stopKeepsFlag(r) == r

\* stop(): self.running = False.
stop(r) == FALSE

\* ------------------------------------------------------------------------
\* showPC.py: GET /screen
\* ------------------------------------------------------------------------

Max(a, b) == IF a >= b THEN a ELSE b
Min(a, b) == IF a <= b THEN a ELSE b

\* The q parameters a client can send: none, an integer, something else.
QArgs ==
    {[kind |-> "absent", val |-> 0], [kind |-> "malformed", val |-> 0]}
        \cup {[kind |-> "int", val |-> v] : v \in (0 - QMargin)..(100 + QMargin)}

\* int(request.args.get('q', 70)): 70 when q is absent, its value when it is
\* an integer, a ValueError otherwise.
ParseQuality(arg) ==
    IF arg.kind = "absent" THEN [kind |-> "value", val |-> 70]
    ELSE IF arg.kind = "int" THEN [kind |-> "value", val |-> arg.val]
    ELSE [kind |-> "raise", val |-> 0]

\* A faulty variant: min and max exchanged.
ClampQualitySwapped(q) == Min(10, Max(100, q))

\* max(10, min(100, quality))
ClampQuality(q) == Max(10, Min(100, q))

NoResponse == [status |-> 0, mimetype |-> "", body |-> "none"]

\* What Flask answers when the view function raises: 500 Internal Server Error.
FlaskError == [status |-> 500, mimetype |-> "text/html", body |-> "error_page"]

\* return Response(img_bytes, mimetype='image/jpeg')
ScreenResponse == [status |-> 200, mimetype |-> "image/jpeg", body |-> "capture"]

\* A faulty variant: the except branch reports the failure as an HTTP error.
ErrorImageAs500 == [status |-> 500, mimetype |-> "image/jpeg", body |-> "error_image"]

\* except Exception: the red 800x600 picture carrying the failure text,
\* return Response(img_byte_arr.getvalue(), mimetype='image/jpeg')
ErrorImageResponse == [status |-> 200, mimetype |-> "image/jpeg", body |-> "error_image"]

\* No /screen request is being handled.
ScreenIdle ==
    /\ qarg = [kind |-> "absent", val |-> 0]
    /\ spc = "idle"
    /\ quality = 0
    /\ encQuality = None
    /\ sfail = "none"
    /\ sresp = NoResponse

\* A /screen request has arrived with some q parameter.
ScreenArrived ==
    /\ qarg \in QArgs
    /\ spc = "args"
    /\ quality = 0
    /\ encQuality = None
    /\ sfail = "none"
    /\ sresp = NoResponse

\* mode = request.args.get('mode', 'stream'); quality = int(request.args.get('q', 70))
\* (outside the try: an exception here reaches Flask)
screen_args ==
    /\ spc = "args"
    /\ LET r == ParseQuality(qarg)
       IN  IF r.kind = "value"
           THEN /\ quality' = r.val
                /\ spc' = "grab"
                /\ sresp' = sresp
           ELSE /\ quality' = quality
                /\ spc' = "done"
                /\ sresp' = FlaskError
    /\ UNCHANGED <<qarg, encQuality, sfail>>
    /\ UNCHANGED screenRest

\* screenshot = ImageGrab.grab()
screen_grab ==
    /\ spc = "grab"
    /\ \E ok \in BOOLEAN :
         /\ spc' = IF ok THEN "save" ELSE "except"
         /\ sfail' = IF ok THEN sfail ELSE "grab"
    /\ UNCHANGED <<qarg, quality, encQuality, sresp>>
    /\ UNCHANGED screenRest

\* screenshot.save(img_byte_arr, format='JPEG', quality=max(10, min(100, quality)))
\* return Response(img_bytes, mimetype='image/jpeg')
screen_save ==
    /\ spc = "save"
    /\ encQuality' = ClampQuality(quality)
    /\ \E ok \in BOOLEAN :
         /\ spc' = IF ok THEN "done" ELSE "except"
         /\ sfail' = IF ok THEN sfail ELSE "save"
         /\ sresp' = IF ok THEN ScreenResponse ELSE sresp
    /\ UNCHANGED <<qarg, quality>>
    /\ UNCHANGED screenRest

\* except Exception as e: build the error picture and return it
screen_except ==
    /\ spc = "except"
    /\ sresp' = ErrorImageResponse
    /\ spc' = "done"
    /\ UNCHANGED <<qarg, quality, encQuality, sfail>>
    /\ UNCHANGED screenRest

ScreenNext ==
    \/ screen_args
    \/ screen_grab
    \/ screen_save
    \/ screen_except

\* ------------------------------------------------------------------------
\* showPC.py: POST /click
\* ------------------------------------------------------------------------

\* The server is threaded (app.run(..., threaded=True)): two requests can be
\* in handle_click at once.
Requests == {1, 2}

\* The display sizes tried for pyautogui.size().
DisplaySizes == {<<1080, 2400>>, <<1366, 768>>}

\* The bodies a client can send: {"x": xn/den, "y": yn/den}, a JSON object
\* without the keys, or something request.json / data.get cannot read.
Bodies ==
    {[kind |-> "unreadable", xn |-> 0, yn |-> 0, den |-> Den],
     [kind |-> "nokeys", xn |-> 0, yn |-> 0, den |-> Den]}
        \cup {[kind |-> "json", xn |-> a, yn |-> b, den |-> Den] : a, b \in -1..(Den + 1)}
        \cup {[kind |-> "json", xn |-> a, yn |-> b, den |-> FineDen] :
                   a, b \in {-1, FineDen + 1}}

\* x = data.get('x', 0), y = data.get('y', 0): the numerators of x and y.
BodyX(b) == IF b.kind = "json" THEN b.xn ELSE 0
BodyY(b) == IF b.kind = "json" THEN b.yn ELSE 0

\* A faulty variant: the quotient n/d rounded to the nearest integer (half up).
IntRound(n, d) == (2 * n + d) \div (2 * d)

\* int(n/d) for d > 0: Python's int() of a float truncates toward zero.
IntTrunc(n, d) == IF n >= 0 THEN n \div d ELSE 0 - ((0 - n) \div d)

\* A faulty variant: the target is clamped to the display.
ClickTargetClamped(b, size) ==
    <<Max(0, Min(size[1] - 1, IntTrunc(BodyX(b) * size[1], b.den))),
      Max(0, Min(size[2] - 1, IntTrunc(BodyY(b) * size[2], b.den)))>>

\* click_x = int(x * screen_width); click_y = int(y * screen_height)
ClickTarget(b, size) ==
    <<IntTrunc(BodyX(b) * size[1], b.den), IntTrunc(BodyY(b) * size[2], b.den)>>

\* A faulty variant: the injection is serialized by a lock held from the move
\* to the click.
MoveLocked(r) == \A s \in Requests \ {r} : cpc[s] # "click"

\* Whether request r may start its pyautogui.moveTo: handle_click takes no
\* lock, so it always may.
MayMove(r) == r \in Requests

NoTarget == <<0, 0>>

NoClickResponse == [status |-> 0, result |-> "none", message |-> "none", x |-> 0, y |-> 0]

\* The statements of handle_click that can raise; str(e) is modelled by the
\* name of the statement that raised e.
ClickSteps == {"body", "size", "move", "click"}

\* return jsonify({'status': 'error', 'message': str(e)}), 500
ClickError(e) == [status |-> 500, result |-> "error", message |-> e, x |-> 0, y |-> 0]

\* return jsonify({'status': 'success', 'x': click_x, 'y': click_y})
ClickSuccess(t) ==
    [status |-> 200, result |-> "success", message |-> "none", x |-> t[1], y |-> t[2]]

\* A faulty variant: a failed move is swallowed and the click is issued.
ClickAfterFailedMove(step) == IF step = "move" THEN "click" ELSE "done"

\* Where handle_click continues after a statement raised: the except branch
\* returns, whichever statement it was.
ClickExcept(step) == "done"

\* No /click request is being handled.
ClickIdle ==
    /\ dsize = <<1080, 2400>>
    /\ pointer = <<0, 0>>
    /\ cbody = [r \in Requests |-> [kind |-> "nokeys", xn |-> 0, yn |-> 0, den |-> Den]]
    /\ cpc = [r \in Requests |-> "idle"]
    /\ ctarget = [r \in Requests |-> NoTarget]
    /\ cresp = [r \in Requests |-> NoClickResponse]
    /\ clicks = <<>>

\* Two /click requests have arrived.
ClickArrived ==
    /\ dsize \in DisplaySizes
    /\ pointer = <<0, 0>>
    /\ cbody \in [Requests -> Bodies]
    /\ cpc = [r \in Requests |-> "body"]
    /\ ctarget = [r \in Requests |-> NoTarget]
    /\ cresp = [r \in Requests |-> NoClickResponse]
    /\ clicks = <<>>

\* data = request.json; x = data.get('x', 0); y = data.get('y', 0)
click_body(r) ==
    /\ cpc[r] = "body"
    /\ IF cbody[r].kind = "unreadable"
       THEN /\ cpc' = [cpc EXCEPT ![r] = ClickExcept("body")]
            /\ cresp' = [cresp EXCEPT ![r] = ClickError("body")]
       ELSE /\ cpc' = [cpc EXCEPT ![r] = "size"]
            /\ cresp' = cresp
    /\ UNCHANGED <<dsize, pointer, cbody, ctarget, clicks>>
    /\ UNCHANGED clickRest

\* screen_width, screen_height = pyautogui.size();
\* click_x = int(x * screen_width); click_y = int(y * screen_height)
click_size(r) ==
    /\ cpc[r] = "size"
    /\ \E ok \in BOOLEAN :
         IF ok
         THEN /\ ctarget' = [ctarget EXCEPT ![r] = ClickTarget(cbody[r], dsize)]
              /\ cpc' = [cpc EXCEPT ![r] = "move"]
              /\ cresp' = cresp
         ELSE /\ ctarget' = ctarget
              /\ cpc' = [cpc EXCEPT ![r] = ClickExcept("size")]
              /\ cresp' = [cresp EXCEPT ![r] = ClickError("size")]
    /\ UNCHANGED <<dsize, pointer, cbody, clicks>>
    /\ UNCHANGED clickRest

\* pyautogui.moveTo(click_x, click_y, duration=0.1)
click_move(r) ==
    /\ cpc[r] = "move"
    /\ MayMove(r)
    /\ \E ok \in BOOLEAN :
         IF ok
         THEN /\ pointer' = ctarget[r]
              /\ cpc' = [cpc EXCEPT ![r] = "click"]
              /\ cresp' = cresp
         ELSE /\ pointer' = pointer
              /\ cpc' = [cpc EXCEPT ![r] = ClickExcept("move")]
              /\ cresp' = [cresp EXCEPT ![r] = ClickError("move")]
    /\ UNCHANGED <<dsize, cbody, ctarget, clicks>>
    /\ UNCHANGED clickRest

\* pyautogui.click(): a click where the pointer is;
\* return jsonify({'status': 'success', 'x': click_x, 'y': click_y})
click_click(r) ==
    /\ cpc[r] = "click"
    /\ \E ok \in BOOLEAN :
         IF ok
         THEN /\ clicks' = Append(clicks, [by |-> r, at |-> pointer])
              /\ cresp' = [cresp EXCEPT ![r] = ClickSuccess(ctarget[r])]
              /\ cpc' = [cpc EXCEPT ![r] = "done"]
         ELSE /\ clicks' = clicks
              /\ cresp' = [cresp EXCEPT ![r] = ClickError("click")]
              /\ cpc' = [cpc EXCEPT ![r] = ClickExcept("click")]
    /\ UNCHANGED <<dsize, pointer, cbody, ctarget>>
    /\ UNCHANGED clickRest

ClickNext ==
    \E r \in Requests :
        \/ click_body(r)
        \/ click_size(r)
        \/ click_move(r)
        \/ click_click(r)

\* ------------------------------------------------------------------------
\* showPC.py: GET /get_ip
\* ------------------------------------------------------------------------

\* The names bound at module level in showPC.py (the imports aside).
ModuleGlobals ==
    {"app", "last_screenshot", "screenshot_lock", "HTML_TEMPLATE", "index", "get_ip",
     "generate_screenshot", "screen", "handle_click", "screen_video", "server_info",
     "get_local_ip", "generate_qr_code", "main"}

\* The locals of main(): PORT = 5000; HOST = '0.0.0.0'
MainLocals == [PORT |-> 5000, HOST |-> "0.0.0.0"]

\* Evaluating the name PORT inside get_ip: it is not a local of get_ip, so it
\* is looked up in the module's globals; a name that is not there raises
\* NameError.
GlobalPORT == IF "PORT" \in ModuleGlobals THEN MainLocals.PORT ELSE Raised

\* The addresses s.getsockname()[0] may give.
LocalIps == {"192.168.1.5", "10.0.0.7"}

NoIp == "unassigned"

NoIpResponse == [status |-> 0, ip |-> NoIp, port |-> 0]

\* return jsonify({'ip': ip, 'port': PORT})
IpResponse(a, port) == [status |-> 200, ip |-> a, port |-> port]

\* An exception that leaves the view: Flask answers 500 Internal Server Error.
IpServerError == [status |-> 500, ip |-> NoIp, port |-> 0]

\* No /get_ip request is being handled.
IpIdle ==
    /\ ipc = [r \in Requests |-> "idle"]
    /\ ip = [r \in Requests |-> NoIp]
    /\ ipresp = [r \in Requests |-> NoIpResponse]

\* Two /get_ip requests have arrived at the server started by main().
IpArrived ==
    /\ ipc = [r \in Requests |-> "socket"]
    /\ ip = [r \in Requests |-> NoIp]
    /\ ipresp = [r \in Requests |-> NoIpResponse]

\* s = socket.socket(socket.AF_INET, socket.SOCK_DGRAM)
ip_socket(r) ==
    /\ ipc[r] = "socket"
    /\ \E ok \in BOOLEAN : ipc' = [ipc EXCEPT ![r] = IF ok THEN "connect" ELSE "except"]
    /\ UNCHANGED <<ip, ipresp>>
    /\ UNCHANGED ipRest

\* s.connect(("8.8.8.8", 80))
ip_connect(r) ==
    /\ ipc[r] = "connect"
    /\ \E ok \in BOOLEAN : ipc' = [ipc EXCEPT ![r] = IF ok THEN "getsockname" ELSE "except"]
    /\ UNCHANGED <<ip, ipresp>>
    /\ UNCHANGED ipRest

\* ip = s.getsockname()[0]
ip_getsockname(r) ==
    /\ ipc[r] = "getsockname"
    /\ \/ \E a \in LocalIps :
            /\ ip' = [ip EXCEPT ![r] = a]
            /\ ipc' = [ipc EXCEPT ![r] = "close"]
       \/ /\ ip' = ip
          /\ ipc' = [ipc EXCEPT ![r] = "except"]
    /\ UNCHANGED ipresp
    /\ UNCHANGED ipRest

\* s.close()
ip_close(r) ==
    /\ ipc[r] = "close"
    /\ \E ok \in BOOLEAN : ipc' = [ipc EXCEPT ![r] = IF ok THEN "return" ELSE "except"]
    /\ UNCHANGED <<ip, ipresp>>
    /\ UNCHANGED ipRest

\* except: ip = "127.0.0.1"
ip_except(r) ==
    /\ ipc[r] = "except"
    /\ ip' = [ip EXCEPT ![r] = "127.0.0.1"]
    /\ ipc' = [ipc EXCEPT ![r] = "return"]
    /\ UNCHANGED ipresp
    /\ UNCHANGED ipRest

\* return jsonify({'ip': ip, 'port': PORT}), outside the try
ip_return(r) ==
    /\ ipc[r] = "return"
    /\ ipresp' = [ipresp EXCEPT ![r] =
                     IF GlobalPORT = Raised THEN IpServerError
                     ELSE IpResponse(ip[r], GlobalPORT)]
    /\ ipc' = [ipc EXCEPT ![r] = "done"]
    /\ UNCHANGED ip
    /\ UNCHANGED ipRest

IpNext ==
    \E r \in Requests :
        \/ ip_socket(r)
        \/ ip_connect(r)
        \/ ip_getsockname(r)
        \/ ip_close(r)
        \/ ip_except(r)
        \/ ip_return(r)

\* ------------------------------------------------------------------------
\* showPC.py: GET /screen_video
\* ------------------------------------------------------------------------

\* A counter that stops counting at its bound.
Counted(n, bound) == IF n < bound THEN n + 1 ELSE n

\* A faulty variant: the except branch ends the generator.
VideoExceptEnds == "ended"

\* Where generate_screenshot continues after its except branch
\* (print, time.sleep(1)): at the top of while True.
VideoExcept == "grab"

\* No /screen_video stream is open.
VideoIdle ==
    /\ gpc = "idle"
    /\ vconnected = FALSE
    /\ vparts = 0
    /\ vfails = 0
    /\ vsleep = "none"

\* A client has opened /screen_video: Response(generate_screenshot(), ...)
\* is about to be iterated.
VideoOpened ==
    /\ gpc = "grab"
    /\ vconnected = TRUE
    /\ vparts = 0
    /\ vfails = 0
    /\ vsleep = "none"

\* screenshot = ImageGrab.grab()
video_grab ==
    /\ gpc = "grab"
    /\ \E ok \in BOOLEAN : gpc' = IF ok THEN "save" ELSE "except"
    /\ UNCHANGED <<vconnected, vparts, vfails, vsleep>>
    /\ UNCHANGED videoRest

\* screenshot.save(img_byte_arr, format='JPEG', quality=85); yield (...):
\* the generator is suspended at the yield with one part handed over.
video_save ==
    /\ gpc = "save"
    /\ \E ok \in BOOLEAN :
         IF ok
         THEN gpc' = "yield" /\ vparts' = Counted(vparts, MaxParts)
         ELSE gpc' = "except" /\ vparts' = vparts
    /\ UNCHANGED <<vconnected, vfails, vsleep>>
    /\ UNCHANGED videoRest

\* The transport wrote the part to the client and asks for the next one: the
\* generator resumes after the yield.
video_resume ==
    /\ gpc = "yield"
    /\ vconnected
    /\ gpc' = "sleep"
    /\ UNCHANGED <<vconnected, vparts, vfails, vsleep>>
    /\ UNCHANGED videoRest

\* time.sleep(0.1), then the next iteration of while True
video_sleep ==
    /\ gpc = "sleep"
    /\ gpc' = "grab"
    /\ vsleep' = "0.1"
    /\ UNCHANGED <<vconnected, vparts, vfails>>
    /\ UNCHANGED videoRest

\* except Exception as e: print(...); time.sleep(1)
video_except ==
    /\ gpc = "except"
    /\ gpc' = VideoExcept
    /\ vsleep' = "1"
    /\ vfails' = Counted(vfails, MaxVFails)
    /\ UNCHANGED <<vconnected, vparts>>
    /\ UNCHANGED videoRest

\* The client disconnects.
video_disconnect ==
    /\ vconnected
    /\ vconnected' = FALSE
    /\ UNCHANGED <<gpc, vparts, vfails, vsleep>>
    /\ UNCHANGED videoRest

\* The write to the disconnected client fails and the transport closes the
\* generator: GeneratorExit is raised at the yield; it is not an Exception,
\* so the except branch does not catch it.
video_close ==
    /\ gpc = "yield"
    /\ ~vconnected
    /\ gpc' = "ended"
    /\ UNCHANGED <<vconnected, vparts, vfails, vsleep>>
    /\ UNCHANGED videoRest

VideoNext ==
    \/ video_grab
    \/ video_save
    \/ video_resume
    \/ video_sleep
    \/ video_except
    \/ video_disconnect
    \/ video_close

\* ------------------------------------------------------------------------
\* showscreen.py against a clock: the pacing and the fps counter of
\* display_optimized_window, with the capture thread's sleeps
\* ------------------------------------------------------------------------

Ms(n) == n * TicksPerMs

\* target_frame_time = 1.0 / target_fps
target_frame_time == Ms(1000) \div TargetFps

NoFps == [frames |-> 0, elapsed |-> 0]

\* The time imshow and setWindowTitle may take, in ms (the same in every
\* iteration of one run).
ShowMs == {0, 5}

\* The time cv2.waitKey(1) may take, in ms: at least its 1 ms delay (the same
\* in every iteration of one run).
WaitKeyTimes == {WaitKeyMs, WaitKeyMs + 1}

\* A faulty variant: the frame time is counted twice.
sleep_two_frames(elapsed_frame) == Max(Ms(MinSleepMs), 2 * target_frame_time - elapsed_frame)

\* sleep_time = max(0.001, target_frame_time - elapsed_frame)
sleep_time(elapsed_frame) == Max(Ms(MinSleepMs), target_frame_time - elapsed_frame)

\* The timed loop is not running.
TimedIdle ==
    /\ now = 0
    /\ tsource = "instant"
    /\ tshow = 0
    /\ twait = WaitKeyMs
    /\ talive = TRUE
    /\ tflips = 0
    /\ tppc = "exited"
    /\ pwake = 0
    /\ tqlen = 0
    /\ tdpc = "returned"
    /\ dwake = 0
    /\ frame_start = 0
    /\ frame_count = 0
    /\ last_fps_update = 0
    /\ fps = NoFps
    /\ rendered = 0
    /\ marks = <<>>
    /\ nextMark = 0

\* capture_thread.start(); frame_count = 0; start_time = time.time();
\* last_fps_update = start_time
TimedStarted ==
    /\ now = 0
    /\ tsource \in {"instant", "any"}
    /\ tshow \in ShowMs
    /\ twait \in WaitKeyTimes
    /\ talive = TRUE
    /\ tflips = 0
    /\ tppc = "run"
    /\ pwake = 0
    /\ tqlen = 0
    /\ tdpc = "get"
    /\ dwake = 0
    /\ frame_start = 0
    /\ frame_count = 0
    /\ last_fps_update = 0
    /\ fps = NoFps
    /\ rendered = 0
    /\ marks = <<>>
    /\ nextMark = 0

\* One iteration of run up to its sleep: the capture, the push (dropping the
\* oldest frame of a full queue), time.sleep(0.01); an exception instead goes
\* to time.sleep(0.1).  The capture itself takes no time.
timed_run ==
    /\ tppc = "run"
    /\ pwake = now
    /\ IF tdpc = "returned"
       THEN tppc' = "exited" /\ UNCHANGED <<pwake, tqlen>>
       ELSE /\ tppc' = tppc
            /\ IF talive
               THEN /\ tqlen' = Min(tqlen + 1, DefaultMaxQueueSize)
                    /\ pwake' = now + Ms(ShortSleepMs)
               ELSE /\ tqlen' = tqlen
                    /\ \E raised \in BOOLEAN :
                         pwake' = now + Ms(IF raised THEN LongSleepMs ELSE ShortSleepMs)
    /\ UNCHANGED <<now, tsource, tshow, twait, talive, tflips, tdpc, dwake, frame_start, frame_count,
                   last_fps_update, fps, rendered, marks, nextMark>>
    /\ UNCHANGED timedRest

\* frame_start = time.time(); img = capture_thread.get_latest_frame();
\* if img is not None: cv2.imshow(...)
timed_get ==
    /\ tdpc = "get"
    /\ dwake = now
    /\ frame_start' = now
    /\ IF tqlen > 0
       THEN /\ tqlen' = tqlen - 1
            /\ rendered' = rendered + 1
            /\ tdpc' = "count"
            /\ dwake' = now + Ms(tshow)
       ELSE /\ tqlen' = tqlen
            /\ rendered' = rendered
            /\ tdpc' = "pace"
            /\ dwake' = dwake
    /\ UNCHANGED <<now, tsource, tshow, twait, talive, tflips, tppc, pwake, frame_count,
                   last_fps_update, fps, marks, nextMark>>
    /\ UNCHANGED timedRest

\* frame_count += 1; current_time = time.time();
\* elapsed = current_time - last_fps_update;
\* if elapsed >= 1.0: fps = frame_count / elapsed; frame_count = 0;
\*                    last_fps_update = current_time
timed_count ==
    /\ tdpc = "count"
    /\ dwake = now
    /\ IF now - last_fps_update >= Ms(FpsUpdateMs)
       THEN /\ fps' = [frames |-> frame_count + 1, elapsed |-> now - last_fps_update]
            /\ frame_count' = 0
            /\ last_fps_update' = now
       ELSE /\ fps' = fps
            /\ frame_count' = frame_count + 1
            /\ last_fps_update' = last_fps_update
    /\ tdpc' = "pace"
    /\ UNCHANGED <<now, tsource, tshow, twait, talive, tflips, tppc, pwake, tqlen, dwake, frame_start,
                   rendered, marks, nextMark>>
    /\ UNCHANGED timedRest

\* elapsed_frame = time.time() - frame_start; time.sleep(sleep_time)
timed_pace ==
    /\ tdpc = "pace"
    /\ dwake = now
    /\ dwake' = now + sleep_time(now - frame_start)
    /\ tdpc' = "waitkey"
    /\ UNCHANGED <<now, tsource, tshow, twait, talive, tflips, tppc, pwake, tqlen, frame_start,
                   frame_count, last_fps_update, fps, rendered, marks, nextMark>>
    /\ UNCHANGED timedRest

\* if cv2.waitKey(1) & 0xFF == ord('q'): break
timed_waitkey ==
    /\ tdpc = "waitkey"
    /\ dwake = now
    /\ dwake' = now + Ms(twait)
    /\ \E quit \in BOOLEAN : tdpc' = IF quit THEN "returned" ELSE "get"
    /\ UNCHANGED <<now, tsource, tshow, twait, talive, tflips, tppc, pwake, tqlen, frame_start,
                   frame_count, last_fps_update, fps, rendered, marks, nextMark>>
    /\ UNCHANGED timedRest

\* A whole second of the running loop has passed: the frames shown so far are
\* noted, and a source that may fail goes away or comes back.
timed_mark ==
    /\ tdpc # "returned"
    /\ nextMark = now
    /\ Len(marks) <= MaxSeconds
    /\ marks' = Append(marks, rendered)
    /\ nextMark' = now + Ms(1000)
    /\ \E flip \in BOOLEAN :
         /\ flip => (tsource = "any" /\ tflips < MaxFlips)
         /\ talive' = IF flip THEN ~talive ELSE talive
         /\ tflips' = IF flip THEN tflips + 1 ELSE tflips
    /\ UNCHANGED <<now, tsource, tshow, twait, tppc, pwake, tqlen, tdpc, dwake, frame_start,
                   frame_count, last_fps_update, fps, rendered>>
    /\ UNCHANGED timedRest

\* The times at which something is due.
Due ==
    {nextMark} \cup (IF tdpc # "returned" THEN {dwake} ELSE {})
               \cup (IF tppc = "run" THEN {pwake} ELSE {})

Earliest(S) == CHOOSE t \in S : \A u \in S : t <= u

\* Time passes until the next call returns.
timed_advance ==
    /\ tdpc # "returned"
    /\ Len(marks) <= MaxSeconds
    /\ \A t \in Due : t > now
    /\ now' = Earliest(Due)
    /\ UNCHANGED <<tsource, tshow, twait, talive, tflips, tppc, pwake, tqlen, tdpc, dwake, frame_start,
                   frame_count, last_fps_update, fps, rendered, marks, nextMark>>
    /\ UNCHANGED timedRest

TimedNext ==
    \/ timed_run
    \/ timed_get
    \/ timed_count
    \/ timed_pace
    \/ timed_waitkey
    \/ timed_mark
    \/ timed_advance

\* ------------------------------------------------------------------------
\* Initial state: display_optimized_window has created the window and
\* constructed the capture thread (not yet started).
\* ------------------------------------------------------------------------
MirrorInit ==
    /\ max_queue_size \in 1..MaxN
    /\ queue = <<>>
    /\ running = TRUE
    /\ ppc = "unstarted"
    /\ frame = None
    /\ captured = 0
    /\ dpc = "start"
    /\ img = None
    /\ window = TRUE
    /\ pushed = <<>>
    /\ returned = <<>>
    /\ evicted = {}
    /\ sincePop = 0
    /\ pushQ0 = <<>>
    /\ midPops = 0
    /\ midRet = None
    /\ misses = 0
    /\ afterStop = 0
    /\ lastSleep = "init"
    /\ lastCap = NoCapture
    /\ cleanup = <<>>
    /\ exitBy = "none"

\* ------------------------------------------------------------------------
\* The producer thread: ScreenCaptureThread.run
\* ------------------------------------------------------------------------

\* while self.running:
run_while ==
    /\ ppc = "while"
    /\ ppc' = IF WhileTest(running) THEN "capture" ELSE "exited"
    /\ UNCHANGED mirrorRest
    /\ UNCHANGED afterStop
    /\ UNCHANGED <<max_queue_size, queue, running, frame, captured, dpc, img, window>>
    /\ UNCHANGED histVars
    /\ UNCHANGED auxVars

\* frame = self.get_screenshot_with_size(self.target_width); if frame is not None
run_capture ==
    /\ ppc = "capture"
    /\ \E size \in SizeOutcomes, shot \in ShotOutcomes, decode \in DecodeOutcomes :
         LET f == get_screenshot_with_size(size, shot, decode, captured + 1)
         IN  /\ f \notin {None, Raised} => captured < MaxFrames
             /\ frame' = IF f = Raised THEN frame ELSE f
             /\ captured' = IF f \notin {None, Raised} THEN captured + 1 ELSE captured
             /\ ppc' = CaptureNext(f)
             /\ misses' = IF f \in {None, Raised} /\ misses < MaxMisses
                           THEN misses + 1 ELSE misses
             /\ lastCap' = CaptureTrace(size, shot, decode)
    /\ lastSleep' = "none"
    /\ UNCHANGED <<cleanup, exitBy>>
    /\ UNCHANGED mirrorRest
    /\ UNCHANGED afterStop
    /\ UNCHANGED <<max_queue_size, queue, running, dpc, img, window>>
    /\ UNCHANGED <<pushed, returned, evicted, sincePop, pushQ0, midPops, midRet>>

\* if self.frame_queue.full():
run_full ==
    /\ ppc = "full"
    /\ ppc' = IF NeedsEvict(queue) THEN "evict" ELSE "put"
    /\ pushQ0' = queue
    /\ midPops' = 0
    /\ midRet' = None
    /\ UNCHANGED mirrorRest
    /\ UNCHANGED afterStop
    /\ UNCHANGED <<max_queue_size, queue, running, frame, captured, dpc, img, window>>
    /\ UNCHANGED <<pushed, returned, evicted, sincePop, misses>>
    /\ UNCHANGED auxVars

\* try: self.frame_queue.get_nowait()  except Empty: pass
run_evict ==
    /\ ppc = "evict"
    /\ LET r == Evict(queue)
       IN  /\ queue' = r.queue
           /\ evicted' = IF r.kind = "item" THEN evicted \cup {r.item} ELSE evicted
    /\ ppc' = "put"
    /\ UNCHANGED mirrorRest
    /\ UNCHANGED afterStop
    /\ UNCHANGED <<max_queue_size, running, frame, captured, dpc, img, window>>
    /\ UNCHANGED <<pushed, returned, sincePop, pushQ0, midPops, midRet, misses>>
    /\ UNCHANGED auxVars

\* self.frame_queue.put(frame): waits while the queue is full
run_put ==
    /\ ppc \in {"put", "put_wait"}
    /\ LET r == Push(queue, frame)
       IN  IF r.kind = "ok"
           THEN /\ queue' = r.queue
                /\ pushed' = Append(pushed, frame)
                /\ afterStop' = IF running THEN afterStop ELSE afterStop + 1
                /\ sincePop' = sincePop + 1
                /\ ppc' = "sleep"
                /\ pushQ0' = <<>>
                /\ midPops' = 0
                /\ midRet' = None
           ELSE /\ ppc' = "put_wait"
                /\ UNCHANGED <<queue, pushed, afterStop, sincePop, pushQ0, midPops, midRet>>
    /\ UNCHANGED mirrorRest
    /\ UNCHANGED <<max_queue_size, running, frame, captured, dpc, img, window>>
    /\ UNCHANGED <<returned, evicted, misses>>
    /\ UNCHANGED auxVars

\* time.sleep(0.01), the last statement of the try body (`frame` is assigned
\* anew before it is read again)
run_sleep ==
    /\ ppc = "sleep"
    /\ ppc' = AfterSleep
    /\ frame' = None
    /\ lastSleep' = "short"
    /\ lastCap' = NoCapture
    /\ UNCHANGED <<cleanup, exitBy>>
    /\ UNCHANGED mirrorRest
    /\ UNCHANGED afterStop
    /\ UNCHANGED <<max_queue_size, queue, running, captured, dpc, img, window>>
    /\ UNCHANGED histVars

\* An exception raised in the try body at the capture statement by something
\* other than the bridge failures get_screenshot_with_size turns into None:
\* control goes to `except Exception` and the iteration pushes nothing.
run_raise ==
    /\ ppc = "capture"
    /\ ppc' = "except"
    /\ misses' = IF misses < MaxMisses THEN misses + 1 ELSE misses
    /\ lastSleep' = "none"
    /\ UNCHANGED <<lastCap, cleanup, exitBy>>
    /\ UNCHANGED mirrorRest
    /\ UNCHANGED afterStop
    /\ UNCHANGED <<max_queue_size, queue, running, frame, captured, dpc, img, window>>
    /\ UNCHANGED <<pushed, returned, evicted, sincePop, pushQ0, midPops, midRet>>

\* except Exception as e: time.sleep(0.1)
run_except ==
    /\ ppc = "except"
    /\ ppc' = RunExcept
    /\ frame' = None
    /\ lastSleep' = "long"
    /\ lastCap' = NoCapture
    /\ UNCHANGED <<cleanup, exitBy>>
    /\ UNCHANGED mirrorRest
    /\ UNCHANGED afterStop
    /\ UNCHANGED <<max_queue_size, queue, running, captured, dpc, img, window>>
    /\ UNCHANGED histVars

\* ------------------------------------------------------------------------
\* The main thread: display_optimized_window
\* ------------------------------------------------------------------------

\* capture_thread.start()
display_start ==
    /\ dpc = "start"
    /\ ppc = "unstarted"
    /\ ppc' = "while"
    /\ dpc' = "get"
    /\ UNCHANGED mirrorRest
    /\ UNCHANGED afterStop
    /\ UNCHANGED <<max_queue_size, queue, running, frame, captured, img, window>>
    /\ UNCHANGED histVars
    /\ UNCHANGED auxVars

\* img = capture_thread.get_latest_frame()
display_get ==
    /\ dpc \in {"get", "get_wait"}
    /\ LET r == get_latest_frame(queue)
       IN  IF r.kind = "return"
           THEN /\ img' = r.ret
                /\ queue' = r.queue
                /\ returned' = IF r.ret # None THEN Append(returned, r.ret) ELSE returned
                /\ sincePop' = 0
                /\ midPops' = IF ppc \in {"evict", "put", "put_wait"}
                              THEN (IF midPops < 2 THEN midPops + 1 ELSE 2) ELSE midPops
                /\ midRet' = IF ppc \in {"evict", "put", "put_wait"} /\ midPops = 0
                             THEN r.ret ELSE midRet
                /\ dpc' = "show"
           ELSE /\ dpc' = "get_wait"
                /\ UNCHANGED <<img, queue, returned, sincePop, midPops, midRet>>
    /\ UNCHANGED mirrorRest
    /\ UNCHANGED afterStop
    /\ UNCHANGED <<max_queue_size, running, ppc, frame, captured, window>>
    /\ UNCHANGED <<pushed, evicted, pushQ0, misses>>
    /\ UNCHANGED auxVars

\* if img is not None: cv2.imshow(...); the fps bookkeeping
display_show ==
    /\ dpc = "show"
    /\ dpc' = "pace"
    /\ UNCHANGED mirrorRest
    /\ UNCHANGED afterStop
    /\ UNCHANGED <<max_queue_size, queue, running, ppc, frame, captured, img, window>>
    /\ UNCHANGED histVars
    /\ UNCHANGED auxVars

\* An exception raised in the loop body (cv2.error from imshow, a
\* KeyboardInterrupt): control goes to `finally`.
display_raise ==
    /\ dpc \in {"show", "pace"}
    /\ dpc' = ExceptionExit
    /\ exitBy' = "exception"
    /\ UNCHANGED mirrorRest
    /\ UNCHANGED afterStop
    /\ UNCHANGED <<max_queue_size, queue, running, ppc, frame, captured, img, window>>
    /\ UNCHANGED histVars
    /\ UNCHANGED <<lastSleep, lastCap, cleanup>>

\* time.sleep(sleep_time)
display_pace ==
    /\ dpc = "pace"
    /\ dpc' = "waitkey"
    /\ UNCHANGED mirrorRest
    /\ UNCHANGED afterStop
    /\ UNCHANGED <<max_queue_size, queue, running, ppc, frame, captured, img, window>>
    /\ UNCHANGED histVars
    /\ UNCHANGED auxVars

\* if cv2.waitKey(1) & 0xFF == ord('q'): break
display_waitkey ==
    /\ dpc = "waitkey"
    /\ \E key \in {"q", "other"} :
         /\ dpc' = IF key = "q" THEN "stop" ELSE "get"
         /\ exitBy' = IF key = "q" THEN "quit" ELSE exitBy
    /\ UNCHANGED mirrorRest
    /\ UNCHANGED afterStop
    /\ UNCHANGED <<max_queue_size, queue, running, ppc, frame, captured, img, window>>
    /\ UNCHANGED histVars
    /\ UNCHANGED <<lastSleep, lastCap, cleanup>>

\* finally: capture_thread.stop()
display_stop ==
    /\ dpc = "stop"
    /\ running' = stop(running)
    /\ dpc' = "join"
    /\ cleanup' = Append(cleanup, "stop")
    /\ UNCHANGED <<lastSleep, lastCap, exitBy>>
    /\ UNCHANGED mirrorRest
    /\ UNCHANGED afterStop
    /\ UNCHANGED <<max_queue_size, queue, ppc, frame, captured, img, window>>
    /\ UNCHANGED histVars

\* capture_thread.join(timeout=1): returns when the thread has exited or the
\* timeout has elapsed, whichever comes first.
display_join ==
    /\ dpc = "join"
    /\ JoinReturns(ppc)
    /\ dpc' = "destroy"
    /\ cleanup' = Append(cleanup, "join")
    /\ UNCHANGED <<lastSleep, lastCap, exitBy>>
    /\ UNCHANGED mirrorRest
    /\ UNCHANGED afterStop
    /\ UNCHANGED <<max_queue_size, queue, running, ppc, frame, captured, img, window>>
    /\ UNCHANGED histVars

\* cv2.destroyAllWindows(); the function returns
display_destroy ==
    /\ dpc = "destroy"
    /\ window' = FALSE
    /\ dpc' = "returned"
    /\ cleanup' = Append(cleanup, "destroy")
    /\ UNCHANGED <<lastSleep, lastCap, exitBy>>
    /\ UNCHANGED mirrorRest
    /\ UNCHANGED afterStop
    /\ UNCHANGED <<max_queue_size, queue, running, ppc, frame, captured, img>>
    /\ UNCHANGED histVars

Producer ==
    \/ run_while
    \/ run_capture
    \/ run_full
    \/ run_evict
    \/ run_put
    \/ run_sleep
    \/ run_raise
    \/ run_except

Display ==
    \/ display_start
    \/ display_get
    \/ display_show
    \/ display_raise
    \/ display_pace
    \/ display_waitkey
    \/ display_stop
    \/ display_join
    \/ display_destroy

Init == MirrorInit /\ ScreenIdle /\ ClickIdle /\ VideoIdle /\ IpIdle /\ TimedIdle

Next == Producer \/ Display

Spec == Init /\ [][Next]_vars

\* The producer thread keeps being scheduled, and every call it makes returns
\* (the bridge calls are bounded by timeout=2, the sleeps are finite).
FairSpec == Spec /\ WF_vars(Producer)

\* The main thread keeps being scheduled; nothing is assumed of the producer,
\* which may stay inside a capture call for as long as it likes.
DisplayFairSpec == Spec /\ WF_vars(Display)

\* One GET /screen request, from its arrival to its response.
ScreenInit ==
    /\ MirrorInit
    /\ max_queue_size = DefaultMaxQueueSize
    /\ ScreenArrived
    /\ ClickIdle
    /\ VideoIdle
    /\ IpIdle
    /\ TimedIdle

ScreenSpec == ScreenInit /\ [][ScreenNext]_vars

\* Two concurrent POST /click requests, from their arrival to their responses.
ClickInit ==
    /\ MirrorInit
    /\ max_queue_size = DefaultMaxQueueSize
    /\ ScreenIdle
    /\ ClickArrived
    /\ VideoIdle
    /\ IpIdle
    /\ TimedIdle

ClickSpec == ClickInit /\ [][ClickNext]_vars

\* One /screen_video stream, from its opening.
VideoInit ==
    /\ MirrorInit
    /\ max_queue_size = DefaultMaxQueueSize
    /\ ScreenIdle
    /\ ClickIdle
    /\ VideoOpened
    /\ IpIdle
    /\ TimedIdle

VideoSpec == VideoInit /\ [][VideoNext]_vars

\* The display loop and the capture thread against the clock, from
\* capture_thread.start().
TimedInit ==
    /\ MirrorInit
    /\ max_queue_size = DefaultMaxQueueSize
    /\ ScreenIdle
    /\ ClickIdle
    /\ VideoIdle
    /\ IpIdle
    /\ TimedStarted

TimedSpec == TimedInit /\ [][TimedNext]_vars

\* Two concurrent GET /get_ip requests, from their arrival to their responses.
IpInit ==
    /\ MirrorInit
    /\ max_queue_size = DefaultMaxQueueSize
    /\ ScreenIdle
    /\ ClickIdle
    /\ VideoIdle
    /\ IpArrived
    /\ TimedIdle

IpSpec == IpInit /\ [][IpNext]_vars

\* ------------------------------------------------------------------------
\* Properties
\* ------------------------------------------------------------------------

\* The last n elements of s (n <= Len(s)).
LastN(s, n) == SubSeq(s, Len(s) - n + 1, Len(s))

Range(s) == {s[i] : i \in 1..Len(s)}

\* The main thread executes get_latest_frame in this step and it returns.
PopStep == dpc \in {"get", "get_wait"} /\ dpc' = "show"

\* C1: in every reachable state, under any interleaving of run and
\* get_latest_frame, the frame queue holds at most N = max_queue_size frames.
C1_QueueBound == Len(queue) <= max_queue_size

\* C1 witness: a full queue, after the producer has evicted a frame and the
\* consumer has popped one.
C1_Witness ==
    /\ Len(queue) = max_queue_size
    /\ evicted # {}
    /\ returned # <<>>

\* The producer is between the eviction and the insert of one push.
MidPush == ppc \in {"put", "put_wait"}

\* C2: after N+k completed pushes with no pop in between (and no further push
\* half done), the queue holds exactly N frames, the last N pushed, in push
\* order: every overflow evicted the oldest frame.
C2_DropOldest ==
    (sincePop >= max_queue_size /\ ~MidPush) =>
        /\ Len(queue) = max_queue_size
        /\ queue = LastN(pushed, max_queue_size)

\* C2 witness: N+2 pushes with no pop, N = DefaultMaxQueueSize.
C2_Witness ==
    /\ max_queue_size = DefaultMaxQueueSize
    /\ sincePop = max_queue_size + 2
    /\ ~MidPush
    /\ queue = <<3, 4>>

\* C3 (as claimed): a pop returns the most recently pushed frame or nothing;
\* in particular with N = 2, after F1, F2, F3 were pushed with no pop in
\* between, the next get_latest_frame returns neither F1 nor F2.
C3_LatestOrNothing ==
    [][PopStep =>
        /\ img' = None \/ img' = pushed[Len(pushed)]
        /\ (max_queue_size = DefaultMaxQueueSize /\ pushed = <<1, 2, 3>> /\ sincePop = 3)
               => img' \notin {1, 2}]_vars

\* One push run as a single atomic step: test, evict, insert.
AtomicPush(q, f) == Push(IF NeedsEvict(q) THEN Evict(q).queue ELSE q, f).queue

\* The two serial orders of one push of f and one get_latest_frame, from the
\* queue q: <<frame returned to the consumer, resulting queue>>.
SerialOutcomes(q, f) ==
    { <<get_latest_frame(AtomicPush(q, f)).ret, get_latest_frame(AtomicPush(q, f)).queue>>,
      <<get_latest_frame(q).ret, AtomicPush(get_latest_frame(q).queue, f)>> }

\* The producer completes a push in this step.
PutStep == ppc \in {"put", "put_wait"} /\ ppc' = "sleep"

\* C4 (as claimed): a push is atomic with respect to a concurrent pop: when
\* exactly one get_latest_frame ran between the full() test and the insert
\* of a push, the frame it returned and the queue after the push are those
\* of one of the two serial orders.
C4_PushAtomic ==
    [][(PutStep /\ midPops = 1) => <<midRet, queue'>> \in SerialOutcomes(pushQ0, frame)]_vars

\* C5: the producer never waits in put: at the moment of the insert the queue
\* holds fewer than N frames, and one push has removed at most one frame.
C5_PutNeverBlocks ==
    /\ ppc # "put_wait"
    /\ ppc = "put" => Len(queue) < max_queue_size
    /\ (ppc = "put" /\ midPops = 0) => Len(queue) >= Len(pushQ0) - 1

\* C5 witness: the producer is about to insert after it found the queue full
\* and evicted one frame.
C5_Witness ==
    /\ ppc = "put"
    /\ Len(pushQ0) = max_queue_size
    /\ midPops = 0
    /\ Len(queue) = max_queue_size - 1

\* C6: no frame is read twice: every frame is returned by get_latest_frame
\* at most once, and no frame evicted by the producer is ever returned.
C6_NoFrameReadTwice ==
    /\ \A i, j \in 1..Len(returned) : returned[i] = returned[j] => i = j
    /\ evicted \cap Range(returned) = {}

\* C6 witness: two frames were returned and one was evicted.
C6_Witness ==
    /\ Len(returned) >= 2
    /\ evicted # {}

\* C7: the queue content is always a contiguous run of the push sequence
\* ending with the latest push, and a frame returned by a pop is one of the
\* N most recently pushed frames at that moment.
C7_RecentWindow ==
    /\ [](Len(queue) <= Len(pushed) /\ queue = LastN(pushed, Len(queue)))
    /\ [][(PopStep /\ img' # None) =>
             /\ Len(pushed) > 0
             /\ \E k \in 1..max_queue_size :
                  k <= Len(pushed) /\ img' = pushed[Len(pushed) - k + 1]]_vars

\* C7 witness: a pop has returned a frame after more than N pushes and an
\* eviction.
C7_Witness ==
    /\ dpc = "show"
    /\ img # None
    /\ evicted # {}
    /\ Len(pushed) > max_queue_size

\* C8: get_latest_frame on an empty queue returns None at once and leaves the
\* queue unchanged; the main thread goes on with its iteration.
C8_EmptyPopReturnsNone ==
    [][(dpc = "get" /\ queue = <<>> /\ dpc' # dpc) =>
          /\ dpc' = "show"
          /\ img' = None
          /\ queue' = queue]_vars

\* C8 witness: the display loop has gone through an iteration without a frame
\* while the producer has pushed nothing.
C8_Witness ==
    /\ dpc = "waitkey"
    /\ img = None
    /\ pushed = <<>>
    /\ returned = <<>>

\* stop() has been called (display_optimized_window is past it).
StopCalled == dpc \in {"join", "destroy", "returned"}

\* C9: the producer leaves its loop only after stop() has been called: while
\* the flag is set, Unavailable captures and exceptions do not end the loop.
C9_ExitOnlyAfterStop ==
    /\ [](ppc = "exited" => (~running /\ StopCalled))
    /\ [][(ppc # "exited" /\ ppc' = "exited") => ~running]_vars

\* C9 witness: the loop is still being run with the flag set after MaxMisses
\* iterations that were Unavailable or raised.
C9_Witness ==
    /\ misses = MaxMisses
    /\ running
    /\ ppc = "capture"

\* C10: after stop() is called on a started capture thread, the thread
\* eventually exits (given that it keeps being scheduled and its calls return).
C10_StopLeadsToExit == StopCalled ~> (ppc = "exited")

\* C10 witness: stop() has been called and the thread has exited.
C10_Witness ==
    /\ StopCalled
    /\ ppc = "exited"
    /\ ~running

\* C11: the capture loop never busy-loops: on every path through an
\* iteration (push, Unavailable capture, exception) the producer sleeps
\* before the next capture attempt.
C11_SleepBetweenCaptures == ppc = "capture" => lastSleep # "none"

\* C11 witness: the producer is back at the capture call, having slept, after
\* MaxMisses iterations that captured nothing and none that captured a frame.
C11_Witness ==
    /\ ppc = "capture"
    /\ lastSleep \in {"short", "long"}
    /\ misses = MaxMisses
    /\ captured = 0

\* The capture attempt c met one of the bridge failures.
CaptureFailed(c) ==
    /\ c # NoCapture
    /\ ~(c.size = "ok" /\ c.shot = "ok" /\ c.decode = "ok")

\* C12: the device capture never raises to its caller: on a failed or empty
\* size query, a non-zero exit, a timeout, a missing bridge or undecodable
\* bytes, get_screenshot_with_size returns None, and in that cycle the
\* producer pushes nothing and leaves the queue unchanged.
C12_CaptureFailureIsNone ==
    [][/\ (ppc = "capture" /\ CaptureFailed(lastCap')) =>
            /\ frame' = None
            /\ ppc' = "sleep"
            /\ queue' = queue
            /\ pushed' = pushed
       /\ (CaptureFailed(lastCap) /\ ppc' # ppc) =>
            /\ ppc' = "while"
            /\ queue' = queue
            /\ pushed' = pushed]_vars

\* C12 witness: the screenshot command timed out, the producer holds no frame
\* and the queue still holds what it held.
C12_Witness ==
    /\ lastCap.shot = "timeout"
    /\ ppc = "sleep"
    /\ frame = None
    /\ queue # <<>>

\* C13: every way out of the display loop (the quit key, an exception in the
\* loop body) runs capture_thread.stop(), capture_thread.join(timeout) and
\* the release of the window, in that order, each exactly once.
C13_CleanupInOrder ==
    /\ dpc \in {"start", "get", "get_wait", "show", "pace", "waitkey", "stop"} => cleanup = <<>>
    /\ dpc = "join" => cleanup = <<"stop">>
    /\ dpc = "destroy" => cleanup = <<"stop", "join">>
    /\ dpc = "returned" => cleanup = <<"stop", "join", "destroy">>
    /\ dpc \in {"start", "get", "get_wait", "show", "pace", "waitkey",
                "stop", "join", "destroy", "returned"}

\* C13 witness: display_optimized_window has returned after an exception in
\* the loop body, its cleanup done.
C13_Witness ==
    /\ dpc = "returned"
    /\ exitBy = "exception"
    /\ cleanup = <<"stop", "join", "destroy">>
    /\ ~window

\* C14 (as claimed): whenever display_optimized_window has returned, the
\* capture thread has terminated and the window has been destroyed.
C14_NoLeak == dpc = "returned" => (ppc = "exited" /\ ~window)

\* C14 (amended): whenever display_optimized_window has returned, the window
\* has been destroyed and the running flag has been cleared; the capture
\* thread itself may still be running (join timed out).
C14_StoppedAndReleased == dpc = "returned" => (~window /\ ~running)

\* C14 witness: display_optimized_window has returned while the capture
\* thread is in the middle of a push.
C14_Witness ==
    /\ dpc = "returned"
    /\ ppc = "full"
    /\ ~window
    /\ ~running

\* C15: shutdown is best-effort and bounded: after stop(), join(timeout)
\* returns even if the producer never leaves its capture call, and
\* display_optimized_window goes on to release the window and return.
C15_JoinIsBounded == (dpc = "join") ~> (dpc = "returned" /\ ~window)

\* C15 witness: display_optimized_window has returned and the producer is
\* still at its capture call.
C15_Witness ==
    /\ dpc = "returned"
    /\ ~window
    /\ ppc = "capture"
    /\ cleanup = <<"stop", "join", "destroy">>

\* C16: if the capture or the encoding raises during GET /screen, the handler
\* still answers HTTP 200 with content type image/jpeg, carrying the
\* synthesized error image, which is not a captured one.
C16_ErrorImageNot500 ==
    (spc = "done" /\ sfail # "none") =>
        /\ sresp.status = 200
        /\ sresp.mimetype = "image/jpeg"
        /\ sresp.body = "error_image"
        /\ sresp.body # ScreenResponse.body

\* C16 witness: the encoding raised and the request was answered with the
\* error image.
C16_Witness ==
    /\ spc = "done"
    /\ sfail = "save"
    /\ sresp.status = 200
    /\ sresp.body = "error_image"

\* C17 (as claimed): GET /screen answers HTTP 200 with an image for every
\* value of q, absent, out of range or malformed; a bad quality never makes
\* the request fail and what is encoded is encoded within [10,100].
C17_Always200 ==
    spc = "done" =>
        /\ sresp.status = 200
        /\ sresp.mimetype = "image/jpeg"
        /\ encQuality # None => encQuality \in 10..100

\* C18: for every integer q, the quality /screen encodes with is
\* max(10, min(100, q)): q itself within [10,100], 10 below it, 100 above it.
C18_QualityClamped ==
    /\ (qarg.kind = "int" /\ encQuality # None) =>
          encQuality = (IF qarg.val < 10 THEN 10
                        ELSE IF qarg.val > 100 THEN 100
                        ELSE qarg.val)
    /\ (qarg.kind = "int" /\ sresp = ScreenResponse) => encQuality # None

\* C18 witness: a request with q=500 was answered with a capture encoded at
\* quality 100.
C18_Witness ==
    /\ qarg = [kind |-> "int", val |-> 500]
    /\ encQuality = 100
    /\ sresp = ScreenResponse

\* ------------------------------------------------------------------------
\* POST /click: the coordinate mapping and concurrent requests
\* ------------------------------------------------------------------------

\* Request r has computed click_x and click_y.
Resolved(r) == cpc[r] \in {"move", "click"} \/ cresp[r].result = "success"

\* The body carries x and y in [0,1].
InUnit(b) == b.kind = "json" /\ b.xn \in 0..b.den /\ b.yn \in 0..b.den

\* c is an integer nearest to n/d.
Nearest(c, n, d) == 2 * (c * d - n) <= d /\ 2 * (n - c * d) <= d

\* c is n/d truncated: c <= n/d < c + 1 (n >= 0).
Truncated(c, n, d) == c * d <= n /\ n < (c + 1) * d

\* {x: 0.5, y: 0.5} on a 1080x2400 display resolves to (540, 1200).
MappingScenario(r) ==
    (dsize = <<1080, 2400>> /\ 2 * cbody[r].xn = cbody[r].den /\ 2 * cbody[r].yn = cbody[r].den)
        => ctarget[r] = <<540, 1200>>

\* C19 as stated: for x, y in [0,1] and every display size the target is
\* (round(x*width), round(y*height)), the nearest integers, and 1080x2400 with
\* (0.5, 0.5) gives (540, 1200).
C19_RoundedTarget ==
    \A r \in Requests :
        (Resolved(r) /\ InUnit(cbody[r])) =>
            /\ Nearest(ctarget[r][1], cbody[r].xn * dsize[1], cbody[r].den)
            /\ Nearest(ctarget[r][2], cbody[r].yn * dsize[2], cbody[r].den)
            /\ MappingScenario(r)

\* C19 as amended: for x, y in [0,1] and every display size the target is
\* (int(x*width), int(y*height)), the products truncated toward zero, not
\* rounded to the nearest integer; 1080x2400 with (0.5, 0.5) gives (540, 1200);
\* a success response reports that target.
C19_TruncatedTarget ==
    \A r \in Requests :
        (Resolved(r) /\ InUnit(cbody[r])) =>
            /\ Truncated(ctarget[r][1], cbody[r].xn * dsize[1], cbody[r].den)
            /\ Truncated(ctarget[r][2], cbody[r].yn * dsize[2], cbody[r].den)
            /\ MappingScenario(r)
            /\ cresp[r].result = "success" =>
                   (cresp[r].x = ctarget[r][1] /\ cresp[r].y = ctarget[r][2])

\* The mapping scenario has run to its success response.
C19_Witness ==
    /\ dsize = <<1080, 2400>>
    /\ 2 * cbody[1].xn = cbody[1].den /\ 2 * cbody[1].yn = cbody[1].den
    /\ cresp[1] = ClickSuccess(<<540, 1200>>)
    /\ \E i \in 1..Len(clicks) : clicks[i] = [by |-> 1, at |-> <<540, 1200>>]

\* C20: two concurrent POST /click requests are not mutually excluded: while
\* one request is between its move and its click, the other can still move the
\* pointer (so a click can land on the other request's coordinates while both
\* report success with their own; C20_Witness is such a run).
C20_NotMutuallyExcluded ==
    \A r, s \in Requests :
        (r # s /\ cpc[r] = "click" /\ cpc[s] = "move") => ENABLED click_move(s)

\* The click of request r was performed at the coordinates of request s, and
\* both requests reported success with their own, different coordinates.
C20_Witness ==
    \E r, s \in Requests :
        /\ r # s
        /\ ctarget[r] # ctarget[s]
        /\ cresp[r] = ClickSuccess(ctarget[r])
        /\ cresp[s] = ClickSuccess(ctarget[s])
        /\ \E i \in 1..Len(clicks) : clicks[i] = [by |-> r, at |-> ctarget[s]]

\* The clicks request r has performed.
ClicksBy(r) == {i \in 1..Len(clicks) : clicks[i].by = r}

\* Request r has been answered with the error payload.
ClickFailed(r) == cresp[r].result = "error"

\* C21: when a step of POST /click fails (unreadable body, display size
\* query, pointer move or click) the response is HTTP 500 with a JSON body of
\* status 'error' and the message text; the injection is not retried (the
\* handler is finished, it issues at most one click and after a failure none),
\* and a failed move is not followed by a click.
C21_FailureIs500NoRetry ==
    /\ [](\A r \in Requests :
            /\ Cardinality(ClicksBy(r)) <= 1
            /\ ClickFailed(r) =>
                   /\ cpc[r] = "done"
                   /\ cresp[r].status = 500
                   /\ cresp[r].message \in ClickSteps
                   /\ ClicksBy(r) = {}
            /\ (cpc[r] = "done" /\ cbody[r].kind = "unreadable") =>
                   cresp[r] = ClickError("body"))
    /\ [][\A r \in Requests :
            ClickFailed(r) =>
                /\ cresp'[r] = cresp[r]
                /\ cpc'[r] = cpc[r]
                /\ (pointer' # pointer => \E s \in Requests \ {r} : cpc[s] = "move")]_vars

\* The move of request 1 failed: it was answered 500 and did not click.
C21_Witness ==
    /\ cpc[1] = "done"
    /\ cresp[1] = ClickError("move")
    /\ ClicksBy(1) = {}

\* ------------------------------------------------------------------------
\* GET /screen_video
\* ------------------------------------------------------------------------

\* C22: the /screen_video generator never ends on its own: after each emitted
\* part it sleeps the fixed interval and captures again, a failed capture or
\* encode does not end the stream (it sleeps and captures again), and the
\* generator ends only when the transport closes it after the client
\* disconnected.
C22_StreamEndsOnlyOnDisconnect ==
    /\ [](gpc = "ended" => ~vconnected)
    /\ [][/\ gpc' = "ended" => (gpc = "ended" \/ (gpc = "yield" /\ ~vconnected))
          /\ (gpc = "yield" /\ gpc' # gpc /\ vconnected) => gpc' = "sleep"
          /\ (gpc = "sleep" /\ gpc' # gpc) => (gpc' = "grab" /\ vsleep' = "0.1")
          /\ (gpc = "except" /\ gpc' # gpc) => (gpc' = "grab" /\ vsleep' = "1")
          /\ (gpc \in {"grab", "save"} /\ gpc' # gpc) => gpc' \in {"save", "yield", "except"}]_vars

\* A stream that emitted parts, survived a failed iteration, emitted again
\* and was then closed after the client went away.
C22_Witness ==
    /\ gpc = "ended"
    /\ ~vconnected
    /\ vfails >= 1
    /\ vparts >= 2
    /\ vsleep = "0.1"

\* ------------------------------------------------------------------------
\* The display loop against the clock
\* ------------------------------------------------------------------------

\* The frames shown in the 5 seconds that begin at whole second i - 1.
ShownInWindow(i) == marks[i + 5] - marks[i]

\* n frames in 5 seconds are within 20% of target_fps.
WithinTolerance(n) ==
    /\ n * 100 >= 5 * TargetFps * 80
    /\ n * 100 <= 5 * TargetFps * 120

\* C23: with a frame source that always succeeds instantly, the fps measured
\* over a 5-second window of the running display loop is within 20% of
\* target_fps (each iteration sleeps max(epsilon, 1/target_fps - elapsed)).
C23_FpsWithinTolerance ==
    tsource = "instant" =>
        \A i \in 1..(Len(marks) - 5) : WithinTolerance(ShownInWindow(i))

\* A run against an instant source that lasted more than 5 seconds, with a
\* slow imshow and a slow waitKey.
C23_Witness ==
    /\ tsource = "instant"
    /\ tshow = 5
    /\ twait = WaitKeyMs + 1
    /\ Len(marks) >= 6
    /\ ShownInWindow(1) \in 70..74

\* ------------------------------------------------------------------------
\* GET /get_ip
\* ------------------------------------------------------------------------

\* C24: GET /get_ip answers with a JSON object holding the local IP address
\* and the port the server listens on, for every request while the server
\* started by main() is running; the IP falls back to 127.0.0.1 when the
\* lookup fails.
C24_GetIpAnswers ==
    \A r \in Requests :
        ipc[r] = "done" =>
            /\ ipresp[r].status = 200
            /\ ipresp[r].port = MainLocals.PORT
            /\ ipresp[r].ip = ip[r]
            /\ ip[r] \in LocalIps \cup {"127.0.0.1"}

\* ------------------------------------------------------------------------
\* The capture loop's lifecycle
\* ------------------------------------------------------------------------

\* The lifecycle state of the capture loop: Stopped while the thread has not
\* been started or has left run, Running while it is in the loop with the
\* flag set, Stopping once stop() has cleared the flag and the thread is
\* still in the loop.
Lifecycle ==
    IF ppc \in {"unstarted", "exited"} THEN "Stopped"
    ELSE IF running THEN "Running"
    ELSE "Stopping"

\* C25: the capture loop's lifecycle follows only Stopped -> Running ->
\* Stopping -> Stopped: it is Stopped until start() is called, becomes Running
\* only through start(), leaves Running only through stop(), and after stop()
\* never becomes Running again.
C25_Lifecycle ==
    /\ [](dpc = "start" => Lifecycle = "Stopped")
    /\ [][/\ Lifecycle' # Lifecycle =>
                <<Lifecycle, Lifecycle'>> \in {<<"Stopped", "Running">>,
                                               <<"Running", "Stopping">>,
                                               <<"Stopping", "Stopped">>}
          /\ (Lifecycle # "Running" /\ Lifecycle' = "Running") =>
                (dpc = "start" /\ dpc' = "get")
          /\ (Lifecycle = "Running" /\ Lifecycle' # "Running") =>
                (dpc = "stop" /\ dpc' = "join")
          /\ StopCalled => Lifecycle' # "Running"]_vars

\* A whole lifecycle: the loop ran (it pushed a frame and had an iteration
\* without a push), was stopped, and the thread has left run.
C25_Witness ==
    /\ ppc = "exited"
    /\ dpc = "returned"
    /\ Len(pushed) >= 1
    /\ misses >= 1

\* C26: when a capture returns Unavailable (None), the producer sleeps the
\* longer retry interval (0.1 s) before the next attempt; the short interval
\* (0.01 s) is used only after a successful capture and push.
C26_LongSleepAfterUnavailable ==
    [][(lastSleep = "none" /\ lastSleep' # "none") =>
           /\ CaptureFailed(lastCap) => lastSleep' = "long"
           /\ lastSleep' = "short" => (lastCap # NoCapture /\ ~CaptureFailed(lastCap))]_vars

\* The display loop has just passed its fps block (the `if img is not None:`
\* body or nothing) and is about to compute its sleep.
AfterFpsBlock == tdpc = "pace" /\ dwake = now

\* C27: in every iteration of the display loop at which at least one second
\* has passed since the last fps update, fps is computed as frames_rendered /
\* elapsed_seconds and the frame counter and the window start are reset,
\* whether or not a frame was rendered in that iteration: past the fps block
\* less than a second separates the clock from last_fps_update, and a reset
\* counter goes with an fps computed over at least a second.
C27_FpsUpdatedEverySecond ==
    AfterFpsBlock =>
        /\ now - last_fps_update < Ms(FpsUpdateMs)
        /\ (last_fps_update = now /\ now > 0) =>
               (frame_count = 0 /\ fps.elapsed >= Ms(FpsUpdateMs))

\* ------------------------------------------------------------------------
\* Order of delivery and the last iteration
\* ------------------------------------------------------------------------

\* C28: frames reach the consumer in capture order: of any two frames returned
\* by get_latest_frame, the one returned first was pushed before the other, in
\* every interleaving of producer and consumer.
C28_CaptureOrder ==
    \A i, j \in 1..Len(returned) :
        i < j => \E a, b \in 1..Len(pushed) :
                    /\ a < b
                    /\ pushed[a] = returned[i]
                    /\ pushed[b] = returned[j]

\* Frames were returned, one was evicted, and a pop that fell between the
\* steps of a push returned a frame.
C28_Witness ==
    /\ Len(returned) >= 2
    /\ evicted # {}
    /\ midRet # None

\* ------------------------------------------------------------------------
\* POST /click with coordinates outside [0,1]
\* ------------------------------------------------------------------------

\* The coordinate c names no pixel of a display that is w wide (or high).
OffDisplay(c, w) == c < 0 \/ c >= w

\* c is n/d truncated toward zero.
TruncatedToZero(c, n, d) ==
    IF n >= 0 THEN c * d <= n /\ n < (c + 1) * d
    ELSE (c - 1) * d < n /\ n <= c * d

\* Request r carries numbers and x or y is outside [0,1].
OutOfRange(r) == cbody[r].kind = "json" /\ ~InUnit(cbody[r])

\* C29 as stated: POST /click performs no range check: for x or y outside
\* [0,1] it computes absolute coordinates outside the display bounds (each
\* coordinate that is out of range gives a target off the display) and still
\* issues the move and the click with them, without clamping or rejecting.
C29_OutOfRangeIsOffDisplay ==
    \A r \in Requests :
        (Resolved(r) /\ OutOfRange(r)) =>
            /\ cbody[r].xn \notin 0..cbody[r].den => OffDisplay(ctarget[r][1], dsize[1])
            /\ cbody[r].yn \notin 0..cbody[r].den => OffDisplay(ctarget[r][2], dsize[2])
            /\ cresp[r].result = "success" => cresp[r] = ClickSuccess(ctarget[r])

\* C29 as amended: POST /click performs no range check: for x or y outside
\* [0,1] the target is still (int(x*width), int(y*height)), unclamped, which
\* is off the display when the product is <= -1 or x > 1 (an x between
\* -1/width and 0 truncates to 0), and the move and the click are issued with
\* it: the move puts the pointer on the target and the request is answered
\* success with it.
C29_OutOfRangeUnchecked ==
    /\ [](\A r \in Requests :
            (Resolved(r) /\ OutOfRange(r)) =>
                /\ TruncatedToZero(ctarget[r][1], cbody[r].xn * dsize[1], cbody[r].den)
                /\ TruncatedToZero(ctarget[r][2], cbody[r].yn * dsize[2], cbody[r].den)
                /\ (cbody[r].xn * dsize[1] <= 0 - cbody[r].den \/ cbody[r].xn > cbody[r].den)
                       => OffDisplay(ctarget[r][1], dsize[1])
                /\ (cbody[r].yn * dsize[2] <= 0 - cbody[r].den \/ cbody[r].yn > cbody[r].den)
                       => OffDisplay(ctarget[r][2], dsize[2])
                /\ cresp[r].result = "success" =>
                       (cresp[r] = ClickSuccess(ctarget[r]) /\ ClicksBy(r) # {})
                /\ ClickFailed(r) => cresp[r].message \in ClickSteps)
    /\ [][\A r \in Requests :
            (OutOfRange(r) /\ cpc[r] = "move" /\ cpc'[r] = "click") =>
                pointer' = ctarget[r]]_vars

\* A request with x = -1/Den and y = 1 + 1/Den was answered success with its
\* target off the display, and its click was performed there.
C29_Witness ==
    /\ cbody[1] = [kind |-> "json", xn |-> -1, yn |-> Den + 1, den |-> Den]
    /\ cresp[1] = ClickSuccess(ctarget[1])
    /\ ctarget[1][1] < 0
    /\ ctarget[1][2] > dsize[2]
    /\ \E i \in ClicksBy(1) : clicks[i].at = ctarget[1]

\* C30: after stop() has cleared the running flag, the producer finishes at
\* most the one iteration already in progress: at most one further frame is
\* pushed into the queue, and no capture is started once the cleared flag has
\* been observed at the top of the loop.
C30_AtMostOneMoreIteration ==
    /\ [](afterStop <= 1)
    /\ [][/\ (~running /\ ppc = "while" /\ ppc' # ppc) => ppc' = "exited"
          /\ (ppc # "capture" /\ ppc' = "capture") => running
          /\ ppc = "exited" => (ppc' = "exited" /\ pushed' = pushed)]_vars

\* stop() found the producer inside an iteration: that iteration pushed its
\* frame, and the thread then left the loop.
C30_Witness ==
    /\ afterStop = 1
    /\ ppc = "exited"
    /\ ~running

====
